---- MODULE Spec2Model ----
(***************************************************************************)
(* State machine of the FileConverter widget                               *)
(* (src/components/file-converter.tsx).                                    *)
(*                                                                         *)
(* The React state of the component is the session; the FileReader, Image, *)
(* video, canvas.toBlob, requestAnimationFrame and MediaRecorder callbacks *)
(* are host events that fire one at a time (single-threaded event loop).   *)
(* A promise continuation runs as a microtask right after the callback     *)
(* that settles the promise, so callback and continuation are one step.    *)
(***************************************************************************)
EXTENDS Naturals, Sequences, FiniteSets, Bags, TLC

(***************************** program constants ***************************)

IMAGE_FORMATS == {"png", "jpeg", "webp", "gif", "bmp", "avif"}
VIDEO_FORMATS == {"mp4", "webm", "ogg", "mov"}

IMAGE_MIME_TYPES ==
  {"image/jpeg", "image/png", "image/webp", "image/gif", "image/bmp", "image/avif"}
VIDEO_MIME_TYPES ==
  {"video/mp4", "video/webm", "video/ogg", "video/quicktime"}

\* the cap of Math.min(prev + 1, 100) and the value of setProgress(100)
MaxProgress == 100

(********************************* bounds **********************************)

\* longest video, in playback ticks
MaxDuration == 1
\* FileReaders of preview generations that may be in flight at once
MaxReaders == 1
\* unrevoked preview object URLs are counted up to this many
MaxPreviewUrls == 1

(********************************* inputs **********************************)

\* declared types the drop zone can be handed that are in neither allow-list
\* (image/svg+xml passes the picker's accept="image/*,video/*" filter)
OtherMimeTypes == {"application/pdf", "image/svg+xml"}

MimeTypes == IMAGE_MIME_TYPES \cup VIDEO_MIME_TYPES \cup OtherMimeTypes

\* File objects: a display name and the declared MIME type (file.type)
Names == {"a", "b"}
Files == [name : Names, type : MimeTypes]

\* useState<File | null>(null)
NoFile == [name |-> "", type |-> ""]

\* useState<string>("") of preview: "" or a URL of a file's content
NoPreview == [kind |-> "none", of |-> NoFile]
\* reader.readAsDataURL(file): the data URL of that file's bytes
DataURL(f) == [kind |-> "data", of |-> f]
\* URL.createObjectURL(file): a blob URL bound to that file
ObjectURL(f) == [kind |-> "blob", of |-> f]

Durations == 0..MaxDuration

VARIABLES
  file,        \* useState<File | null>
  converting,  \* useState(false)
  loading,     \* useState(false)
  progress,    \* useState(0)
  type,        \* useState<ConversionType>("image")
  format,      \* useState("")
  preview,     \* useState<string>("")
  readers,     \* bag of files whose preview FileReader is still reading
  conv,        \* the handleConvert call in flight (or the last one)
  orphanLoop,  \* a frame loop whose conversion promise was already rejected
  previewUrls, \* URL.createObjectURL(file) results not revoked (saturating)
  artifactUrls,\* object URLs of conversion artifacts not revoked
  toasts,      \* titles passed to toast() by the last step
  downloads,   \* link.download of the links clicked by the last step
  ended        \* the handleConvert call the last step ran to its end

vars == <<file, converting, loading, progress, type, format, preview,
          readers, conv, orphanLoop, previewUrls, artifactUrls,
          toasts, downloads, ended>>

session == <<file, converting, loading, progress, type, format, preview>>

Min(a, b) == IF a < b THEN a ELSE b

(************************** the conversion in flight ***********************)

\* pc: the host callback the promise of convertImage / convertVideo waits for
\*   "idle"      no handleConvert call is awaiting
\*   "imgRead"   convertImage: reader.readAsDataURL(file)
\*   "imgDecode" convertImage: img.src set, img.onload / img.onerror
\*   "toBlob"    convertImage: canvas.toBlob callback
\*   "vidRead"   convertVideo: reader.readAsDataURL(file)
\*   "vidMeta"   convertVideo: video.src set, onloadedmetadata / onerror
\*   "recording" convertVideo: requestAnimationFrame(drawFrame) pending
\*   "stopping"  convertVideo: mediaRecorder.stop() called, the recorder's
\*               dataavailable and then stop events pending
\*   "hung"      convertVideo: onloadedmetadata threw, nothing is pending
IdleConv ==
  [pc |-> "idle", type |-> "image", file |-> NoFile, format |-> "",
   currentTime |-> 0, duration |-> 0, recorderMime |-> "", chunks |-> 0]

\* what a step reports of the handleConvert call it ended: how the awaited
\* promise settled, the format and type the call closed over, the href of
\* the link it clicked, the chunks in the video blob, the rejection's cause
NoEnd == [outcome |-> "none", type |-> "image", format |-> "",
          artifact |-> "", chunks |-> 0, failure |-> "none"]

\* a step that notifies nobody, downloads nothing and ends no call
Quiet ==
  /\ toasts' = <<>>
  /\ downloads' = <<>>
  /\ ended' = NoEnd

Init ==
  /\ file = NoFile
  /\ converting = FALSE
  /\ loading = FALSE
  /\ progress = 0
  /\ type = "image"
  /\ format = ""
  /\ preview = NoPreview
  /\ readers = EmptyBag
  /\ conv = IdleConv
  /\ orphanLoop = FALSE
  /\ previewUrls = 0
  /\ artifactUrls = {}
  /\ toasts = <<>>
  /\ downloads = <<>>
  /\ ended = NoEnd

(***************************** input acquisition ***************************)

\* detectFileType with the second allow-list test dropped: every type that is
\* no image type counts as a video
detectFileTypeNoVideoTest(f) ==
  IF f.type \in IMAGE_MIME_TYPES THEN "image" ELSE "video"

\* detectFileType: the kind it returns, "" for null
detectFileType(f) ==
  IF f.type \in IMAGE_MIME_TYPES THEN "image"
  ELSE IF f.type \in VIDEO_MIME_TYPES THEN "video"
  ELSE ""

\* resetState without setFormat("")
resetStateKeepsFormat ==
  /\ file # NoFile
  /\ file' = NoFile
  /\ progress' = 0
  /\ preview' = NoPreview
  /\ Quiet
  /\ UNCHANGED <<converting, loading, type, format, readers, conv, orphanLoop,
                 previewUrls, artifactUrls>>

\* resetState without setProgress(0)
resetStateKeepsProgress ==
  /\ file # NoFile
  /\ file' = NoFile
  /\ preview' = NoPreview
  /\ format' = ""
  /\ Quiet
  /\ UNCHANGED <<converting, loading, progress, type, readers, conv,
                 orphanLoop, previewUrls, artifactUrls>>

\* resetState, the X button (rendered only while a file is held)
resetState ==
  /\ file # NoFile
  /\ file' = NoFile
  /\ progress' = 0
  /\ preview' = NoPreview
  /\ format' = ""
  /\ Quiet
  /\ UNCHANGED <<converting, loading, type, readers, conv, orphanLoop,
                 previewUrls, artifactUrls>>

\* createPreview(file, fileType) up to its first suspension
createPreview(f, fileType) ==
  IF fileType = "image"
  THEN /\ loading' = TRUE
       /\ readers' = readers (+) SetToBag({f})
       /\ UNCHANGED <<preview, previewUrls>>
  ELSE /\ previewUrls' = Min(previewUrls + 1, MaxPreviewUrls)
       /\ preview' = ObjectURL(f)
       /\ loading' = FALSE
       /\ UNCHANGED readers

\* handleFileChange without its setProgress(0)
handleFileChangeKeepsProgress(f) ==
  /\ file = NoFile
  /\ LET fileType == detectFileType(f) IN
     IF fileType = ""
     THEN /\ toasts' = <<"Invalid file type">>
          /\ UNCHANGED <<file, loading, progress, type, preview, readers,
                         previewUrls>>
     ELSE /\ toasts' = <<>>
          /\ fileType = "image" => BagCardinality(readers) < MaxReaders
          /\ type' = fileType
          /\ file' = f
          /\ UNCHANGED progress
          /\ createPreview(f, fileType)
  /\ downloads' = <<>>
  /\ ended' = NoEnd
  /\ UNCHANGED <<converting, format, conv, orphanLoop, artifactUrls>>

\* handleFileChange without the return after the rejection toast
handleFileChangeNoReturn(f) ==
  /\ file = NoFile
  /\ LET fileType == detectFileType(f) IN
     /\ toasts' = IF fileType = "" THEN <<"Invalid file type">> ELSE <<>>
     /\ fileType = "image" => BagCardinality(readers) < MaxReaders
     /\ type' = IF fileType = "" THEN type ELSE fileType
     /\ file' = f
     /\ progress' = 0
     /\ createPreview(f, fileType)
  /\ downloads' = <<>>
  /\ ended' = NoEnd
  /\ UNCHANGED <<converting, format, conv, orphanLoop, artifactUrls>>

\* handleFileChange(file), from the drop zone or the file picker, which are
\* rendered only while no file is held
handleFileChange(f) ==
  /\ file = NoFile
  /\ LET fileType == detectFileType(f) IN
     IF fileType = ""
     THEN /\ toasts' = <<"Invalid file type">>
          /\ downloads' = <<>>
          /\ ended' = NoEnd
          /\ UNCHANGED <<file, progress, type, loading, preview, readers,
                         previewUrls>>
     ELSE /\ fileType = "image" => BagCardinality(readers) < MaxReaders
          /\ type' = fileType
          /\ file' = f
          /\ progress' = 0
          /\ createPreview(f, fileType)
          /\ Quiet
  /\ UNCHANGED <<converting, format, conv, orphanLoop, artifactUrls>>

\* reader.onload of createPreview
PreviewReaderOnload(f) ==
  /\ BagIn(f, readers)
  /\ readers' = readers (-) SetToBag({f})
  /\ preview' = DataURL(f)
  /\ loading' = FALSE
  /\ Quiet
  /\ UNCHANGED <<file, converting, progress, type, format, conv, orphanLoop,
                 previewUrls, artifactUrls>>

\* the read of createPreview fails: no reader.onerror is installed
PreviewReaderOnerror(f) ==
  /\ BagIn(f, readers)
  /\ readers' = readers (-) SetToBag({f})
  /\ Quiet
  /\ UNCHANGED <<session, conv, orphanLoop, previewUrls, artifactUrls>>

\* the options of the format Select, rendered only while a file is held
FormatOptions == IF type = "image" THEN IMAGE_FORMATS ELSE VIDEO_FORMATS

\* onValueChange={setFormat}
setFormat(fmt) ==
  /\ file # NoFile
  /\ fmt \in FormatOptions
  /\ format' = fmt
  /\ Quiet
  /\ UNCHANGED <<file, converting, loading, progress, type, preview,
                 readers, conv, orphanLoop, previewUrls, artifactUrls>>

(**************************** conversion pipeline **************************)

\* the continuation of handleConvert without its URL.revokeObjectURL calls
ResolvedNoRevoke(a, live) ==
  /\ artifactUrls' = IF conv.type = "image" THEN live ELSE live \cup {a}
  /\ downloads' = <<"converted." \o conv.format>>
  /\ progress' = MaxProgress
  /\ toasts' = <<"Conversion complete">>
  /\ converting' = FALSE
  /\ ended' = [outcome |-> "resolved", type |-> conv.type,
                format |-> conv.format, artifact |-> a,
                chunks |-> conv.chunks, failure |-> "none"]
  /\ conv' = IdleConv
  /\ UNCHANGED <<file, loading, type, format, preview, readers>>

\* the continuation of handleConvert naming the download after the format
\* selected when the conversion ends, not the one the call closed over
ResolvedCurrentFormat(a, live) ==
  /\ artifactUrls' =
       IF conv.type = "image"
       THEN (IF conv.format = "gif" \/ conv.format = "avif"
             THEN live \ {a} ELSE live)
       ELSE (live \cup {a}) \ {a}
  /\ downloads' = <<"converted." \o format>>
  /\ progress' = MaxProgress
  /\ toasts' = <<"Conversion complete">>
  /\ converting' = FALSE
  /\ ended' = [outcome |-> "resolved", type |-> conv.type,
                format |-> conv.format, artifact |-> a,
                chunks |-> conv.chunks, failure |-> "none"]
  /\ conv' = IdleConv
  /\ UNCHANGED <<file, loading, type, format, preview, readers>>

\* handleConvert, lines 218-241 and 249-251: the continuation after the
\* awaited promise resolved with artifact a, live being the unrevoked
\* artifact URLs at that point. format and type are the values the call
\* closed over. The video path creates the object URL of the blob here;
\* revokeObjectURL is called for gif and avif and for every video.
Resolved(a, live) ==
  /\ artifactUrls' =
       IF conv.type = "image"
       THEN (IF conv.format = "gif" \/ conv.format = "avif"
             THEN live \ {a} ELSE live)
       ELSE (live \cup {a}) \ {a}
  /\ downloads' = <<"converted." \o conv.format>>
  /\ progress' = MaxProgress
  /\ toasts' = <<"Conversion complete">>
  /\ converting' = FALSE
  /\ ended' = [outcome |-> "resolved", type |-> conv.type,
                format |-> conv.format, artifact |-> a,
                chunks |-> conv.chunks, failure |-> "none"]
  /\ conv' = IdleConv
  /\ UNCHANGED <<file, loading, type, format, preview, readers>>

\* handleConvert, lines 242-251: the awaited promise rejected
Rejected(why) ==
  /\ toasts' = <<"Conversion failed">>
  /\ downloads' = <<>>
  /\ converting' = FALSE
  /\ ended' = [outcome |-> "rejected", type |-> conv.type,
                format |-> conv.format, artifact |-> "",
                chunks |-> conv.chunks, failure |-> why]
  /\ conv' = IdleConv
  /\ UNCHANGED <<file, loading, progress, type, format, preview, readers,
                 artifactUrls>>

\* a callback of the conversion that touches no React state
Advance(c) ==
  /\ conv' = c
  /\ Quiet
  /\ UNCHANGED <<session, readers, artifactUrls>>

\* handleConvert that returns early only when no file is held: if (!file)
handleConvertReturnNoFormatTest ==
  /\ file = NoFile \/ format = ""
  /\ IF file = NoFile
     THEN UNCHANGED <<converting, progress, conv>>
     ELSE /\ converting' = TRUE
          /\ progress' = 0
          /\ conv' = [IdleConv EXCEPT
                        !.pc = IF type = "image" THEN "imgRead" ELSE "vidRead",
                        !.type = type, !.file = file, !.format = format]
  /\ Quiet
  /\ UNCHANGED <<file, loading, type, format, preview, readers, orphanLoop,
                 previewUrls, artifactUrls>>

\* handleConvert run with no file or no format: if (!file || !format) return
handleConvertReturn ==
  /\ file = NoFile \/ format = ""
  /\ Quiet
  /\ UNCHANGED <<session, readers, conv, orphanLoop, previewUrls,
                 artifactUrls>>

\* handleConvert behind a Convert button that is disabled={!format} only
handleConvertWhileConverting ==
  /\ file # NoFile /\ format # ""
  /\ converting' = TRUE
  /\ progress' = 0
  /\ conv' = [IdleConv EXCEPT
                !.pc = IF type = "image" THEN "imgRead" ELSE "vidRead",
                !.type = type, !.file = file, !.format = format]
  /\ Quiet
  /\ UNCHANGED <<file, loading, type, format, preview, readers, orphanLoop,
                 previewUrls, artifactUrls>>

\* handleConvert up to its await; the Convert button is rendered only while
\* a file is held and is disabled while converting or without a format
handleConvert ==
  /\ ~converting
  /\ file # NoFile /\ format # ""
  /\ converting' = TRUE
  /\ progress' = 0
  /\ conv' = [IdleConv EXCEPT
                !.pc = IF type = "image" THEN "imgRead" ELSE "vidRead",
                !.type = type, !.file = file, !.format = format]
  /\ Quiet
  /\ UNCHANGED <<file, loading, type, format, preview, readers, orphanLoop,
                 previewUrls, artifactUrls>>

\* convertImage: reader.onload creates the Image and sets img.src
ImageReaderOnload ==
  /\ conv.pc = "imgRead"
  /\ Advance([conv EXCEPT !.pc = "imgDecode"])
  /\ UNCHANGED <<orphanLoop, previewUrls>>

\* convertImage: reader.onerror = reject
ImageReaderOnerror ==
  /\ conv.pc = "imgRead"
  /\ Rejected("read")
  /\ UNCHANGED <<orphanLoop, previewUrls>>

\* convertImage: img.onload draws the canvas and re-encodes it
ImageOnload ==
  /\ conv.pc = "imgDecode"
  /\ IF conv.format = "gif" \/ conv.format = "avif"
     THEN Advance([conv EXCEPT !.pc = "toBlob"])
     ELSE Resolved("data:image/" \o conv.format, artifactUrls)
  /\ UNCHANGED <<orphanLoop, previewUrls>>

\* convertImage: img.onerror = reject
ImageOnerror ==
  /\ conv.pc = "imgDecode"
  /\ Rejected("decode")
  /\ UNCHANGED <<orphanLoop, previewUrls>>

\* convertImage: the canvas.toBlob callback, with a blob, of which it
\* creates the object URL, or with null
ToBlobCallback(blob) ==
  /\ conv.pc = "toBlob"
  /\ IF blob
     THEN LET url == "blob:image/" \o conv.format
          IN  Resolved(url, artifactUrls \cup {url})
     ELSE Rejected("encode")
  /\ UNCHANGED <<orphanLoop, previewUrls>>

\* convertVideo: reader.onload creates the video element and sets video.src
VideoReaderOnload ==
  /\ conv.pc = "vidRead"
  /\ Advance([conv EXCEPT !.pc = "vidMeta"])
  /\ UNCHANGED <<orphanLoop, previewUrls>>

\* convertVideo: reader.onerror = reject
VideoReaderOnerror ==
  /\ conv.pc = "vidRead"
  /\ Rejected("read")
  /\ UNCHANGED <<orphanLoop, previewUrls>>

\* convertVideo: video.onerror = reject, before the metadata is available
VideoOnerror ==
  /\ conv.pc = "vidMeta"
  /\ Rejected("decode")
  /\ UNCHANGED <<orphanLoop, previewUrls>>

\* drawFrame whose progress update has no cap: setProgress((prev) => prev + 1)
drawFrameUncapped(c) ==
  /\ progress' = progress + 1
  /\ conv' = [c EXCEPT !.pc = IF c.currentTime < c.duration
                               THEN "recording" ELSE "stopping"]
  /\ Quiet
  /\ UNCHANGED <<file, converting, loading, type, format, preview, readers,
                 artifactUrls>>

\* drawFrame that requests the next frame before testing the position
drawFrameAlwaysSchedules(c) ==
  /\ progress' = Min(progress + 1, MaxProgress)
  /\ conv' = [c EXCEPT !.pc = "recording"]
  /\ Quiet
  /\ UNCHANGED <<file, converting, loading, type, format, preview, readers,
                 artifactUrls>>

\* drawFrame: draw, setProgress((prev) => Math.min(prev + 1, 100)), then
\* schedule the next frame or stop the recorder and pause the video
drawFrame(c) ==
  /\ progress' = Min(progress + 1, MaxProgress)
  /\ conv' = [c EXCEPT !.pc = IF c.currentTime < c.duration
                               THEN "recording" ELSE "stopping"]
  /\ Quiet
  /\ UNCHANGED <<file, converting, loading, type, format, preview, readers,
                 artifactUrls>>

\* convertVideo: video.onloadedmetadata with video.duration = d. Creating or
\* starting the MediaRecorder throws (captureStream / MediaRecorder missing,
\* or video/<actualFormat> not supported) or succeeds; the exception leaves
\* the event handler, nothing settles the promise.
VideoOnloadedmetadata(d, supported) ==
  /\ conv.pc = "vidMeta"
  /\ IF supported
     THEN drawFrame([conv EXCEPT
            !.duration = d, !.currentTime = 0,
            !.recorderMime = "video/" \o
               (IF conv.format = "mov" THEN "mp4" ELSE conv.format)])
     ELSE Advance([conv EXCEPT !.pc = "hung"])
  /\ UNCHANGED <<orphanLoop, previewUrls>>

\* a frame callback that, once the playback position has reached the
\* duration, resolves with what the recorder has handed over so far instead
\* of leaving that to mediaRecorder.onstop
AnimationFrameResolves ==
  /\ conv.pc = "recording"
  /\ IF conv.currentTime < conv.duration
     THEN drawFrame(conv)
     ELSE Resolved("blob:video/" \o conv.format, artifactUrls)
  /\ UNCHANGED <<orphanLoop, previewUrls>>

\* requestAnimationFrame(drawFrame) fires
AnimationFrame ==
  /\ conv.pc = "recording"
  /\ drawFrame(conv)
  /\ UNCHANGED <<orphanLoop, previewUrls>>

\* the playing video advances its playback position
Playback ==
  /\ conv.pc = "recording"
  /\ conv.currentTime < conv.duration
  /\ Advance([conv EXCEPT !.currentTime = @ + 1])
  /\ UNCHANGED <<orphanLoop, previewUrls>>

\* convertVideo: video.onerror = reject, for a decode error during playback:
\* the promise rejects, the video stays short of its duration and its frame
\* loop keeps rescheduling itself
VideoOnerrorPlaying ==
  /\ conv.pc = "recording"
  /\ conv.currentTime < conv.duration
  /\ Rejected("decode")
  /\ orphanLoop' = TRUE
  /\ UNCHANGED previewUrls

\* a frame of a loop whose video stopped short of its duration
OrphanFrame ==
  /\ orphanLoop
  /\ progress' = Min(progress + 1, MaxProgress)
  /\ Quiet
  /\ UNCHANGED <<file, converting, loading, type, format, preview, readers,
                 conv, orphanLoop, previewUrls, artifactUrls>>

\* mediaRecorder.ondataavailable: the recorder, started without a timeslice,
\* hands over its data once, after stop() and before the stop event
RecorderOndataavailable ==
  /\ conv.pc = "stopping"
  /\ conv.chunks = 0
  /\ Advance([conv EXCEPT !.chunks = 1])
  /\ UNCHANGED <<orphanLoop, previewUrls>>

\* mediaRecorder.onstop that tags the blob video/<format> for every format
RecorderOnstopTagsFormat ==
  /\ conv.pc = "stopping"
  /\ conv.chunks = 1
  /\ Resolved("blob:video/" \o conv.format, artifactUrls)
  /\ UNCHANGED <<orphanLoop, previewUrls>>

\* mediaRecorder.onstop assembles the chunks and resolves
RecorderOnstop ==
  /\ conv.pc = "stopping"
  /\ conv.chunks = 1
  /\ Resolved("blob:" \o (IF conv.format = "mov" THEN "video/quicktime"
                          ELSE "video/" \o conv.format), artifactUrls)
  /\ UNCHANGED <<orphanLoop, previewUrls>>

(****************************** specifications *****************************)

\* the declared types of the files at hand in the full pipeline
SampleTypes == {"image/png", "video/mp4"} \cup OtherMimeTypes
SampleFiles == {f \in Files : f.name = "a" /\ f.type \in SampleTypes}

Acquisition(pool) ==
  \/ resetState
  \/ \E f \in pool : handleFileChange(f)
  \/ \E f \in pool : PreviewReaderOnload(f)
  \/ \E f \in pool : PreviewReaderOnerror(f)
  \/ \E fmt \in IMAGE_FORMATS \cup VIDEO_FORMATS : setFormat(fmt)

Conversion ==
  \/ handleConvertReturn
  \/ handleConvert
  \/ ImageReaderOnload
  \/ ImageReaderOnerror
  \/ ImageOnload
  \/ ImageOnerror
  \/ \E blob \in BOOLEAN : ToBlobCallback(blob)
  \/ VideoReaderOnload
  \/ VideoReaderOnerror
  \/ VideoOnerror
  \/ \E d \in Durations, supported \in BOOLEAN : VideoOnloadedmetadata(d, supported)
  \/ AnimationFrame
  \/ Playback
  \/ VideoOnerrorPlaying
  \/ OrphanFrame
  \/ RecorderOndataavailable
  \/ RecorderOnstop

Next == Acquisition(SampleFiles) \/ Conversion

Spec == Init /\ [][Next]_vars

\* Every pending host callback eventually fires, and a playing video
\* eventually advances. The user is under no obligation.
Fairness ==
  /\ \A f \in SampleFiles :
       WF_vars(PreviewReaderOnload(f) \/ PreviewReaderOnerror(f))
  /\ WF_vars(ImageReaderOnload \/ ImageReaderOnerror)
  /\ WF_vars(ImageOnload \/ ImageOnerror)
  /\ WF_vars(\E blob \in BOOLEAN : ToBlobCallback(blob))
  /\ WF_vars(VideoReaderOnload \/ VideoReaderOnerror)
  /\ WF_vars(VideoOnerror
              \/ \E d \in Durations, supported \in BOOLEAN :
                    VideoOnloadedmetadata(d, supported))
  /\ WF_vars(AnimationFrame)
  /\ WF_vars(Playback \/ VideoOnerrorPlaying)
  /\ WF_vars(OrphanFrame)
  /\ WF_vars(RecorderOndataavailable)
  /\ WF_vars(RecorderOnstop)

FairSpec == Spec /\ Fairness

\* acquisition alone, over every declared type
AcquireNext == Acquisition(Files)

AcquireSpec == Init /\ [][AcquireNext]_vars

\* acquisition alone, every pending read of createPreview eventually ending
FairAcquireSpec ==
  /\ AcquireSpec
  /\ \A f \in Files :
       WF_vars(PreviewReaderOnload(f) \/ PreviewReaderOnerror(f))

\* the whole component, every requested animation frame eventually firing
FrameFairSpec == Spec /\ WF_vars(AnimationFrame)

(********************************* claims **********************************)

AllowedMimeTypes == IMAGE_MIME_TYPES \cup VIDEO_MIME_TYPES

\* C1: handleFileChange(f) leaves the session holding f with type "image"
\* when f's declared type is in the image allow-list, holding f with type
\* "video" when it is in the video allow-list, and holding no file when it
\* is in neither.
C1_AcquisitionClassifies ==
  [][\A f \in Files : handleFileChange(f) =>
       /\ f.type \in IMAGE_MIME_TYPES => (file' = f /\ type' = "image")
       /\ f.type \in VIDEO_MIME_TYPES => (file' = f /\ type' = "video")
       /\ f.type \notin AllowedMimeTypes => file' = NoFile]_vars

\* a video/quicktime file was acquired: it is held as a video and previewed
C1_Witness ==
  /\ file.type = "video/quicktime"
  /\ type = "video"
  /\ preview = ObjectURL(file)

\* C2: handleFileChange(f) for a declared type in neither allow-list changes
\* none of file, type, format, preview, progress, loading, converting, starts
\* no preview read, and passes exactly "Invalid file type" to toast().
C2_RejectionChangesNothing ==
  [][\A f \in {g \in Files : g.type \notin AllowedMimeTypes} :
       handleFileChange(f) =>
          /\ UNCHANGED session
          /\ UNCHANGED readers
          /\ toasts' = <<"Invalid file type">>]_vars

\* a file was just rejected, with a conversion in flight, and the session is
\* still empty
C2_Witness ==
  /\ toasts = <<"Invalid file type">>
  /\ file = NoFile
  /\ preview = NoPreview
  /\ converting

\* C3: in every reachable state format is "" or one of the formats of the
\* session's type.
C3_FormatMatchesKind ==
  format = "" \/ format \in FormatOptions

\* an image conversion is still in flight while a video is held with a video
\* format selected
C3_Witness ==
  /\ conv.pc # "idle" /\ conv.type = "image"
  /\ file # NoFile /\ type = "video"
  /\ format = "mov"

\* C4: resetState, from any state, leaves no file, an empty preview, an
\* empty format and progress 0.
C4_ResetClears ==
  [][resetState =>
       /\ file' = NoFile
       /\ preview' = NoPreview
       /\ format' = ""
       /\ progress' = 0]_vars

\* the session was reset while a preview was loading and frames of a video
\* conversion had advanced the progress
C4_Witness ==
  /\ file = NoFile /\ preview = NoPreview /\ format = "" /\ progress = 0
  /\ converting /\ conv.pc = "recording"
  /\ ended = NoEnd /\ toasts = <<>>
  /\ BagCardinality(readers) > 0

\* C5: a non-empty preview is a URL of the file the session holds; with no
\* file held the preview is empty. (The completion of a preview read that a
\* reset has made stale would have to be discarded.)
C5_PreviewOfCurrentFile ==
  preview # NoPreview => (file # NoFile /\ preview.of = file)

\* a step of the conversion has failed: the awaited promise rejected, or
\* video.onloadedmetadata threw
StepFailed == ended.outcome = "rejected" \/ conv.pc = "hung"

\* C6: a conversion in which a step failed has ended with exactly one
\* "Conversion failed" notification and without a download.
C6_FailureNotifiedOnce ==
  StepFailed =>
    /\ ended.outcome = "rejected"
    /\ toasts = <<"Conversion failed">>
    /\ downloads = <<>>

\* C7: whenever converting is true it eventually becomes false again.
C7_ConvertingEnds == converting ~> ~converting

\* the link of a finished conversion was clicked by the last step
Downloaded == downloads # <<>>

\* C8: a step clicks at most one download link, and only the step in which
\* the complete artifact became available clicks one: img.onload for a
\* format encoded with toDataURL, the toBlob callback for gif and avif, and
\* mediaRecorder.onstop, after the recorder handed over its data, for a
\* video. That step ends the conversion.
C8_DownloadAfterArtifact ==
  [][Downloaded' =>
       /\ Len(downloads') = 1
       /\ conv'.pc = "idle"
       /\ ended'.artifact # ""
       /\ \/ conv.pc = "imgDecode" /\ conv.format \notin {"gif", "avif"}
          \/ conv.pc = "toBlob" /\ conv.format \in {"gif", "avif"}
          \/ conv.pc = "stopping" /\ conv.chunks = 1]_vars

\* a video conversion has just ended with its download
C8_Witness ==
  /\ Downloaded
  /\ ended.type = "video" /\ ended.chunks = 1
  /\ ended.artifact = "blob:video/quicktime"

\* a video conversion is in flight
VideoInFlight == conv.type = "video" /\ conv.pc \notin {"idle", "hung"}

\* C9: between two states of one video conversion in flight progress does
\* not decrease.
C9_ProgressMonotone ==
  [][(VideoInFlight /\ VideoInFlight') => progress' >= progress]_vars

\* C10: progress is always an integer from 0 to 100, and it is 0 right
\* after handleConvert started a conversion.
C10_ProgressRange ==
  /\ progress \in 0..MaxProgress
  /\ [][/\ progress' \in 0..MaxProgress
        /\ handleConvert => progress' = 0]_vars

\* frame callbacks keep firing with the progress at its cap
C10_Witness ==
  /\ progress = MaxProgress
  /\ conv.pc = "recording"
  /\ converting

\* C11: at most one preview object URL is unrevoked at any time, and none
\* while no file is held (resetState would have to revoke it).
C11_PreviewUrlsReleased ==
  /\ previewUrls <= 1
  /\ file = NoFile => previewUrls = 0

\* C12: between steps no object URL of a conversion artifact is unrevoked,
\* whether or not a conversion is in flight: the step that creates one clicks
\* the download link and revokes it.
C12_ArtifactUrlsRevoked == artifactUrls = {}

\* a gif conversion has just ended: the object URL of its blob was the
\* link's href and is revoked
C12_Witness ==
  /\ ended.outcome = "resolved"
  /\ ended.artifact = "blob:image/gif"
  /\ downloads = <<"converted.gif">>
  /\ artifactUrls = {}

\* C13: handleConvert run with no file held or with an empty format changes
\* no state variable, starts no conversion and no preview read, clicks no
\* link and notifies nobody.
C13_ConvertWithoutInputIsNoop ==
  [][handleConvertReturn =>
       /\ UNCHANGED <<session, conv, readers, orphanLoop, previewUrls,
                      artifactUrls>>
       /\ toasts' = <<>>
       /\ downloads' = <<>>]_vars

\* a file is held and previewed, no format is selected, nothing is in flight
C13_Witness ==
  /\ file # NoFile /\ preview # NoPreview
  /\ format = ""
  /\ ~converting /\ conv.pc = "idle"
  /\ toasts = <<>> /\ downloads = <<>>

\* the media type the MediaRecorder is to be configured with, per format
RecorderTypeOf ==
  [mp4 |-> "video/mp4", webm |-> "video/webm", ogg |-> "video/ogg",
   mov |-> "video/mp4"]

\* the media type the assembled blob is to be tagged with, per format
BlobTypeOf ==
  [mp4 |-> "video/mp4", webm |-> "video/webm", ogg |-> "video/ogg",
   mov |-> "video/quicktime"]

\* C14: for every video format f the MediaRecorder of a conversion to f is
\* configured with video/mp4 when f = mov and video/f otherwise, and the
\* blob assembled in onstop is tagged video/quicktime when f = mov and
\* video/f otherwise.
C14_MovIsRelabelledMp4 ==
  /\ (conv.type = "video" /\ conv.pc \in {"recording", "stopping"})
       => conv.recorderMime = RecorderTypeOf[conv.format]
  /\ (ended.type = "video" /\ ended.outcome = "resolved")
       => ended.artifact = "blob:" \o BlobTypeOf[ended.format]

\* the recorder of a conversion to mov, configured with video/mp4, was
\* stopped and has handed over its data
C14_Witness ==
  /\ conv.format = "mov"
  /\ conv.recorderMime = "video/mp4"
  /\ conv.pc = "stopping" /\ conv.chunks = 1

\* C15: the format a handleConvert call works with is the one selected when
\* it was invoked, whatever is selected or reset meanwhile; the step that
\* ends the call successfully clicks exactly one link, named
\* converted.<that format>, and notifies exactly "Conversion complete"; no
\* other step clicks a link or notifies "Conversion complete".
C15_SuccessDownloadsOnce ==
  [][/\ handleConvert => conv'.format = format
     /\ (conv.pc # "idle" /\ conv'.pc # "idle") => conv'.format = conv.format
     /\ ended'.outcome = "resolved" =>
          /\ conv.pc # "idle"
          /\ downloads' = <<"converted." \o conv.format>>
          /\ toasts' = <<"Conversion complete">>
     /\ ended'.outcome # "resolved" =>
          /\ downloads' = <<>>
          /\ toasts' # <<"Conversion complete">>]_vars

\* a conversion to webp has just succeeded after the session was reset
C15_Witness ==
  /\ downloads = <<"converted.webp">>
  /\ toasts = <<"Conversion complete">>
  /\ file = NoFile /\ format = ""

\* C16: a preview generation that has set loading = true eventually sets
\* loading = false, whether its read completes or fails.
C16_LoadingEnds == loading ~> ~loading

\* C17: right after every step that acquires a file, whatever preceded it,
\* progress is 0 and no format is selected.
C17_AcquisitionStartsClean ==
  [][(file = NoFile /\ file' # NoFile) => (progress' = 0 /\ format' = "")]_vars

\* a file has been acquired while the conversion of an earlier file, with
\* its own format, is still in flight
C17_Witness ==
  /\ file # NoFile /\ format = "" /\ progress = 0
  /\ conv.pc # "idle" /\ conv.file # file /\ conv.format # ""

\* C18: a conversion issued for an earlier session does not touch the
\* fresher session: progress is 0 while no file is held.
C18_StaleResultsDiscarded == file = NoFile => progress = 0

\* a frame callback or the first drawFrame of onloadedmetadata
FrameStep ==
  \/ AnimationFrame
  \/ \E d \in Durations : VideoOnloadedmetadata(d, TRUE)

\* C19: converting is true exactly while a handleConvert call awaits its
\* conversion; neither resetState nor an acquisition changes it; and
\* handleConvert starts a conversion only while none is awaited.
C19_OneConversionInFlight ==
  [][/\ converting <=> conv.pc # "idle"
     /\ (resetState \/ file' # file) => UNCHANGED <<converting, conv>>
     /\ handleConvert => (~converting /\ conv.pc = "idle")]_vars

\* during the conversion of a.png the session was reset, a.mp4 acquired and
\* a format selected for it: Convert stays disabled
C19_Witness ==
  /\ converting /\ conv.pc # "idle"
  /\ file # NoFile /\ conv.file # file
  /\ format # ""

\* C20: a frame schedules the next frame callback exactly when the playback
\* position is below the duration, and otherwise stops the recorder and
\* pauses the video; once stopped no frame callback runs any more, so the
\* recorder is stopped once; and a loop whose video has reached its
\* duration terminates.
C20_FrameLoopStops ==
  /\ [][/\ FrameStep =>
             /\ conv'.currentTime < conv'.duration => conv'.pc = "recording"
             /\ conv'.currentTime >= conv'.duration => conv'.pc = "stopping"
        /\ conv.pc = "stopping" =>
             /\ conv'.pc \in {"stopping", "idle"}
             /\ ~ENABLED AnimationFrame]_vars
  /\ (conv.pc = "recording" /\ conv.currentTime >= conv.duration)
        ~> conv.pc # "recording"

\* a loop that ran below the duration has stopped at the duration
C20_Witness ==
  /\ conv.pc = "stopping"
  /\ conv.duration >= 1
  /\ conv.currentTime = conv.duration

====
